---- MODULE Spec2Model ----
(***************************************************************************)
(* Model of dbaccess_rest.JsonDatabase: a synchronous REST client of a     *)
(* remote JSON document store (collections of documents, queried by        *)
(* predicate with offset pagination).                                      *)
(*                                                                         *)
(* The remote store is the environment.  Every HTTP exchange is one step:  *)
(* the client sends the request its code builds, the store picks a status  *)
(* code and a reason and, for a success status, performs the request.      *)
(* A handler is the chain of its exchanges, driven by pc; "done" holds its *)
(* outcome (the value returned or the exception raised) until Return.      *)
(***************************************************************************)
EXTENDS Integers, Sequences, FiniteSets, TLC

VARIABLES
    exists,     \* names of the collections the store holds
    docs,       \* docs[c]: the documents of collection c, in insertion order
    collname,   \* self.__collname of the constructed client (NoClient before)
    pc,         \* position of the running handler
    op,         \* the running call: method name and arguments
    offset,     \* local of the extract loops
    has_more,   \* local of the extract loops
    items,      \* local of the extract loops
    reqs,       \* exchanges of the running call: request sent, answer received
    outcome,    \* what the call returned or raised
    pre,        \* the store as it was when the call started
    last,       \* status code and reason of the latest answer
    honest      \* the store has answered every page of this call authoritatively

vars == <<exists, docs, collname, pc, op, offset, has_more, items, reqs,
          outcome, pre, last, honest>>

----------------------------------------------------------------------------
(* Bounds of the model *)

MaxDocs == 2
MaxPage == 2

\* The collections of the store: the client's own, and one of another user
ClientNames == {"c1"}
OtherNames == {"c2"}
Names == ClientNames \cup OtherNames
NoClient == "-"

ZLayers == {0, 1}
Origins == {<<0, 0>>, <<1, 1>>}
TileSizes == {1, 2}
Boxes == {<<0, 0, 1, 1>>, <<1, 0, 2, 1>>}

\* Status codes around the limits the client tests, each with its reason
Statuses == {199, 200, 204, 299, 300}

ReasonPhrase(code) ==
    CASE code = 200 -> "OK"
      [] code = 204 -> "No Content"
      [] code = 300 -> "Multiple Choices"
      [] OTHER -> "Unassigned"

Metas == { {}, {<<"block_name", "b123">>}, {<<"block_name", "b456">>} }

----------------------------------------------------------------------------
(* Documents *)

Feature(x, y, z) ==
    [type |-> "Feature", coordinates |-> <<x, y, z>>, content |-> {}]

FeatureDocs == {Feature(1, 1, 0), Feature(2, 0, 0), Feature(1, 1, 1)}

Min(a, b) == IF a < b THEN a ELSE b

----------------------------------------------------------------------------
(* Query predicates built by the client, and how the store evaluates them *)

NoRange == <<>>
NoQuery == [type |-> <<>>, z |-> <<>>, x |-> NoRange, y |-> NoRange]

\* qdata of extract_metadata: {"type": {"$eq": "Metadata"}}
MetadataQuery == [NoQuery EXCEPT !.type = <<"Metadata">>]

\* qdata of extract_items: {"geometry.coordinates[2]": {"$eq": z_layer}}
ItemsQuery(z_layer) == [NoQuery EXCEPT !.z = <<z_layer>>]

\* qdata of extract_region: z equality, x and y $between the given corners
RegionQuery(z_layer, x0, y0, xf, yf) ==
    [NoQuery EXCEPT !.z = <<z_layer>>, !.x = <<x0, xf>>, !.y = <<y0, yf>>]

TileQuery_Exclusive(z_layer, x0, y0, tile_size) ==
    LET xf == x0 + tile_size
        yf == y0 + tile_size
    IN  [NoQuery EXCEPT !.z = <<z_layer>>, !.x = <<x0, xf>>, !.y = <<y0, yf>>]

\* qdata of extract_tile_data: xf = x0 + tile_size - 1, yf = y0 + tile_size - 1
TileQuery(z_layer, x0, y0, tile_size) ==
    LET xf == x0 + tile_size - 1
        yf == y0 + tile_size - 1
    IN  [NoQuery EXCEPT !.z = <<z_layer>>, !.x = <<x0, xf>>, !.y = <<y0, yf>>]

\* $between [lo, hi]: lo <= v <= hi, both ends included
Between(v, range) == range[1] <= v /\ v <= range[2]

HasGeometry(d) == Len(d.coordinates) = 3

\* A document matches when every field the predicate names is present and
\* passes its comparison.
Matches(d, q) ==
    /\ q.type # <<>> => d.type = q.type[1]
    /\ q.z # <<>> => (HasGeometry(d) /\ d.coordinates[3] = q.z[1])
    /\ q.x # NoRange => (HasGeometry(d) /\ Between(d.coordinates[1], q.x))
    /\ q.y # NoRange => (HasGeometry(d) /\ Between(d.coordinates[2], q.y))

\* The documents of s that match q, in the order of s
RECURSIVE Matching(_, _)
Matching(s, q) ==
    IF s = <<>> THEN <<>>
    ELSE (IF Matches(Head(s), q) THEN <<Head(s)>> ELSE <<>>) \o Matching(Tail(s), q)

\* The page of a query answer: the matches from the offset on, at most limit
Page(m, off, limit) == SubSeq(m, off + 1, Min(off + limit, Len(m)))

----------------------------------------------------------------------------
(* Transport: classification of the status code *)

Resp(status, code, reason) == [status |-> status, code |-> code, reason |-> reason]

make_post_request(code, reason) ==
    IF 200 <= code /\ code <= 299
    THEN Resp("ok", code, "")
    ELSE Resp("error", code, reason)

make_get_request(code, reason) ==
    IF 200 <= code /\ code <= 299
    THEN Resp("ok", code, "")
    ELSE Resp("error", code, reason)

make_delete_request(code, reason) ==
    IF code = 200
    THEN Resp("ok", code, "")
    ELSE Resp("error", code, reason)

\* requests.put in __create_collection: an error only above 299
put_status(code, reason) ==
    IF code > 299
    THEN Resp("error", code, reason)
    ELSE Resp("ok", code, "")

----------------------------------------------------------------------------
(* Outcomes of a call *)

NoOutcome ==
    [kind |-> "none", exc |-> "", code |-> 0, reason |-> "", count |-> 0,
     items |-> <<>>, meta |-> {}, names |-> {}]

Returned == [NoOutcome EXCEPT !.kind = "return"]
ReturnedItems(its) == [Returned EXCEPT !.items = its]
ReturnedMeta(m) == [Returned EXCEPT !.meta = m]
ReturnedNames(ns) == [Returned EXCEPT !.names = ns]

\* error_msg = str(code) + " " + reason
Raised(exc, resp) ==
    [NoOutcome EXCEPT !.kind = "raise", !.exc = exc, !.code = resp.code,
                      !.reason = resp.reason]
RaisedPlain(exc) == [NoOutcome EXCEPT !.kind = "raise", !.exc = exc]
RaisedCount(exc, n) == [NoOutcome EXCEPT !.kind = "raise", !.exc = exc, !.count = n]

----------------------------------------------------------------------------
(* The running call *)

NoOp ==
    [name |-> "", coll |-> NoClient, create_coll |-> FALSE, overwrite |-> FALSE,
     z |-> 0, x0 |-> 0, y0 |-> 0, xf |-> 0, yf |-> 0, tile_size |-> 0,
     meta |-> {}, payload |-> <<>>]

NoStore == [exists |-> {}, docs |-> [c \in Names |-> <<>>]]

Exchange(method, action, coll, off, q, resp, count, more) ==
    [method |-> method, action |-> action, coll |-> coll, offset |-> off,
     q |-> q, status |-> resp.status, count |-> count, hasMore |-> more]

NoAnswer == [code |-> 0, reason |-> ""]
Answer(code) == [code |-> code, reason |-> ReasonPhrase(code)]

RECURSIVE SumLen(_)
SumLen(cs) ==
    IF cs = {} THEN 0
    ELSE LET c == CHOOSE x \in cs : TRUE IN Len(docs[c]) + SumLen(cs \ {c})

TotalDocs == SumLen(Names)

ExtractOps == {"extract_items", "extract_tile_data", "extract_region"}

\* The statuses with which the store reports that it has performed the
\* request: 200 for a DELETE, 200..299 otherwise.
Success(method) ==
    IF method = "DELETE" THEN {200} ELSE {s \in Statuses : 200 <= s /\ s <= 299}

\* The statuses the store can answer with: a success status only for a
\* request it can perform; 204 is drawn for DELETE, where it differs from 200.
StatusesFor(method, coll) ==
    LET drawn == IF method = "DELETE" THEN Statuses ELSE Statuses \ {204}
    IN  IF method \in {"POST", "DELETE"} /\ coll \notin exists
        THEN drawn \ Success(method)
        ELSE drawn

Init ==
    /\ exists \in SUBSET OtherNames
    /\ docs = [c \in Names |-> <<>>]
    /\ collname = NoClient
    /\ pc = "idle"
    /\ op = NoOp
    /\ offset = 0
    /\ has_more = TRUE
    /\ items = <<>>
    /\ reqs = <<>>
    /\ outcome = NoOutcome
    /\ pre = NoStore
    /\ last = NoAnswer
    /\ honest = TRUE

\* Entry of a call: the locals of the extract loops start at offset = 0,
\* has_more = True, items = []
Start(o, at) ==
    /\ pc = "idle"
    /\ pc' = at
    /\ op' = o
    /\ offset' = 0
    /\ has_more' = TRUE
    /\ items' = <<>>
    /\ reqs' = <<>>
    /\ outcome' = NoOutcome
    /\ pre' = [exists |-> exists, docs |-> docs]
    /\ last' = NoAnswer
    /\ honest' = TRUE
    /\ UNCHANGED <<exists, docs, collname>>

Finish(o) ==
    /\ pc' = "done"
    /\ outcome' = o

\* JsonDatabase(user, password, collection_name, create_coll, overwrite)
Construct ==
    \E c \in ClientNames, create_coll \in BOOLEAN, overwrite \in BOOLEAN :
        /\ pc = "idle"
        /\ ~create_coll => ~overwrite
        /\ op' = [NoOp EXCEPT !.name = "init", !.coll = c,
                              !.create_coll = create_coll, !.overwrite = overwrite]
        /\ offset' = 0 /\ has_more' = TRUE /\ items' = <<>> /\ reqs' = <<>>
        /\ pre' = [exists |-> exists, docs |-> docs]
        /\ last' = NoAnswer
        /\ honest' = TRUE
        /\ IF create_coll
           THEN pc' = "create_list" /\ outcome' = NoOutcome /\ UNCHANGED collname
           ELSE Finish(Returned) /\ collname' = c
        /\ UNCHANGED <<exists, docs>>

Method(name) == [NoOp EXCEPT !.name = name, !.coll = collname]

CallListCollections ==
    /\ collname # NoClient
    /\ Start(Method("list_collections"), "list")

CallDeleteCollection ==
    /\ collname # NoClient
    /\ Start(Method("delete_collection"), "delete")

CallAddItem ==
    \E d \in FeatureDocs :
        /\ collname # NoClient
        /\ TotalDocs < MaxDocs
        /\ Start([Method("add_item") EXCEPT !.payload = <<d>>], "insert")

CallAddMultipleItems ==
    \E d1 \in FeatureDocs, d2 \in FeatureDocs :
        /\ collname # NoClient
        /\ TotalDocs + 2 <= MaxDocs
        /\ Start([Method("add_multiple_items") EXCEPT !.payload = <<d1, d2>>], "insert")

CallAddMetadata ==
    \E m \in Metas :
        /\ collname # NoClient
        /\ TotalDocs < MaxDocs
        /\ Start([Method("add_metadata") EXCEPT !.meta = m], "meta_query")

CallExtractMetadata ==
    /\ collname # NoClient
    /\ Start(Method("extract_metadata"), "meta_query")

CallExtractItems ==
    \E z \in ZLayers :
        /\ collname # NoClient
        /\ Start([Method("extract_items") EXCEPT !.z = z], "page")

CallExtractTileData ==
    \E z \in ZLayers, o \in Origins, ts \in TileSizes :
        /\ collname # NoClient
        /\ Start([Method("extract_tile_data") EXCEPT
                    !.z = z, !.x0 = o[1], !.y0 = o[2], !.tile_size = ts], "page")

CallExtractRegion ==
    \E z \in ZLayers, b \in Boxes :
        /\ collname # NoClient
        /\ Start([Method("extract_region") EXCEPT
                    !.z = z, !.x0 = b[1], !.y0 = b[2], !.xf = b[3], !.yf = b[4]], "page")

----------------------------------------------------------------------------
(* list_collections and __create_collection *)

Log(e, code) == reqs' = Append(reqs, e) /\ last' = Answer(code)

\* list_collections(only_names=True) after the GET
list_collections(resp, names) ==
    IF resp.status = "ok"
    THEN ReturnedNames(names)
    ELSE Raised("DatabaseUnableToAccess", resp)

create_collection_Overwrites(name, all_colls, overwrite) ==
    IF name \in all_colls THEN "create_delete" ELSE "create_put"

\* __create_collection after the listing: where it goes next
create_collection(name, all_colls, overwrite) ==
    IF name \in all_colls
    THEN IF overwrite THEN "create_delete" ELSE "raise"
    ELSE "create_put"

delete_collection_Silent(resp) == Returned

\* delete_collection after the DELETE
delete_collection(resp) ==
    IF resp.status = "error"
    THEN Raised("DatabaseUnableToDelete", resp)
    ELSE Returned

\* the end of __create_collection, after the PUT
create_put(resp) ==
    IF resp.status = "error"
    THEN Raised("DatabaseUnableToCreate", resp)
    ELSE Returned

ListResponse ==
    \E code \in StatusesFor("GET", "") :
        LET resp == make_get_request(code, ReasonPhrase(code))
            res == list_collections(resp, exists)
        IN  /\ pc \in {"list", "create_list"}
            /\ Log(Exchange("GET", "list", "", 0, NoQuery, resp, 0, FALSE), code)
            /\ IF pc = "list" \/ res.kind = "raise"
               THEN Finish(res)
               ELSE LET next == create_collection(op.coll, res.names, op.overwrite)
                    IN  IF next = "raise"
                        THEN Finish([RaisedPlain("DatabaseCollectionExists")
                                        EXCEPT !.names = {op.coll}])
                        ELSE pc' = next /\ UNCHANGED outcome
            /\ UNCHANGED <<exists, docs, collname, op, offset, has_more, items,
                           pre, honest>>

DeleteResponse ==
    \E code \in StatusesFor("DELETE", op.coll) :
        LET resp == make_delete_request(code, ReasonPhrase(code))
            res == delete_collection(resp)
        IN  /\ pc \in {"delete", "create_delete"}
            /\ Log(Exchange("DELETE", "", op.coll, 0, NoQuery, resp, 0, FALSE), code)
            /\ IF code \in Success("DELETE")
               THEN /\ exists' = exists \ {op.coll}
                    /\ docs' = [docs EXCEPT ![op.coll] = <<>>]
               ELSE UNCHANGED <<exists, docs>>
            /\ IF pc = "delete" \/ res.kind = "raise"
               THEN Finish(res)
               ELSE pc' = "create_put" /\ UNCHANGED outcome
            /\ UNCHANGED <<collname, op, offset, has_more, items, pre, honest>>

PutResponse ==
    \E code \in StatusesFor("PUT", op.coll) :
        LET resp == put_status(code, ReasonPhrase(code))
            res == create_put(resp)
        IN  /\ pc = "create_put"
            /\ Log(Exchange("PUT", "", op.coll, 0, NoQuery, resp, 0, FALSE), code)
            /\ IF code \in Success("PUT")
               THEN exists' = exists \cup {op.coll}
               ELSE UNCHANGED exists
            /\ Finish(res)
            /\ collname' = IF res.kind = "return" THEN op.coll ELSE collname
            /\ UNCHANGED <<docs, op, offset, has_more, items, pre, honest>>

----------------------------------------------------------------------------
(* add_item, add_multiple_items, add_metadata, extract_metadata *)

\* formatted_dict of add_metadata
MetadataDoc(metadata_dict) ==
    [type |-> "Metadata", coordinates |-> <<>>, content |-> metadata_dict]

Payload == IF op.name = "add_metadata" THEN <<MetadataDoc(op.meta)>> ELSE op.payload

InsertAction == IF op.name = "add_multiple_items" THEN "insert" ELSE ""

\* add_item, add_multiple_items and the end of add_metadata, after the POST
add_item(resp) ==
    IF resp.status = "error"
    THEN Raised("DatabaseUnableToAddItem", resp)
    ELSE Returned

InsertResponse ==
    \E code \in StatusesFor("POST", op.coll) :
        LET resp == make_post_request(code, ReasonPhrase(code))
        IN  /\ pc = "insert"
            /\ Log(Exchange("POST", InsertAction, op.coll, 0, NoQuery, resp, 0, FALSE), code)
            /\ IF code \in Success("POST")
               THEN docs' = [docs EXCEPT ![op.coll] = @ \o Payload]
               ELSE UNCHANGED docs
            /\ Finish(add_item(resp))
            /\ UNCHANGED <<exists, collname, op, offset, has_more, items, pre, honest>>

extract_metadata_NoContent(resp, all_items, count) ==
    IF resp.status = "ok"
    THEN IF count > 1
         THEN RaisedCount("DatabaseTooManyMetadataDocs", count)
         ELSE ReturnedMeta({})
    ELSE Raised("DatabaseUnableToExtractData", resp)

\* extract_metadata after the POST of the type == Metadata query
extract_metadata(resp, all_items, count) ==
    IF resp.status = "ok"
    THEN IF count > 1
         THEN RaisedCount("DatabaseTooManyMetadataDocs", count)
         ELSE IF count = 0
              THEN ReturnedMeta({})
              ELSE ReturnedMeta(all_items[1].content)
    ELSE Raised("DatabaseUnableToExtractData", resp)

\* add_metadata after extract_metadata returned current_meta: "if current_meta:"
add_metadata(current_meta) ==
    IF current_meta # {}
    THEN "raise"
    ELSE "insert"

MetaQueryResponse ==
    \E code \in StatusesFor("POST", op.coll), limit \in 1..MaxPage :
        LET resp == make_post_request(code, ReasonPhrase(code))
            m == Matching(docs[op.coll], MetadataQuery)
            all_items == IF resp.status = "ok" THEN Page(m, 0, limit) ELSE <<>>
            count == Len(all_items)
            res == extract_metadata(resp, all_items, count)
        IN  /\ pc = "meta_query"
            /\ resp.status = "error" => limit = 1
            /\ Log(Exchange("POST", "query", op.coll, 0, MetadataQuery, resp, count,
                            resp.status = "ok" /\ count < Len(m)), code)
            /\ IF op.name = "extract_metadata" \/ res.kind = "raise"
               THEN Finish(res)
               ELSE IF add_metadata(res.meta) = "raise"
                    THEN Finish(RaisedPlain("DatabaseMetadataAlreadyExists"))
                    ELSE pc' = "insert" /\ UNCHANGED outcome
            /\ UNCHANGED <<exists, docs, collname, op, offset, has_more, items,
                           pre, honest>>

----------------------------------------------------------------------------
(* extract_items, extract_tile_data, extract_region: the pagination loop *)

\* qdata of the running extract call
CurrentQuery ==
    CASE op.name = "extract_items" -> ItemsQuery(op.z)
      [] op.name = "extract_tile_data" -> TileQuery(op.z, op.x0, op.y0, op.tile_size)
      [] op.name = "extract_region" -> RegionQuery(op.z, op.x0, op.y0, op.xf, op.yf)

NextOffset_PerPage(off, count) == off + 1

\* offset += count
NextOffset(off, count) == off + count

\* if count > 0: items += [copy.deepcopy(it.get("value")) for it in all_items]
Accumulate(its, all_items, count) ==
    IF count > 0 THEN its \o all_items ELSE its

LoopAgain_Always(more) == TRUE

\* while has_more
LoopAgain(more) == more

ExtractError_Partial(resp, its) ==
    IF its = <<>> THEN Raised("DatabaseUnableToExtractData", resp) ELSE ReturnedItems(its)

\* the else branch of the loop body: raise DatabaseUnableToExtractData
ExtractError(resp, its) == Raised("DatabaseUnableToExtractData", resp)

PageResponse ==
    \E code \in StatusesFor("POST", op.coll),
       limit \in 1..MaxPage, more \in BOOLEAN :
        LET resp == make_post_request(code, ReasonPhrase(code))
            m == Matching(docs[op.coll], CurrentQuery)
            all_items == IF resp.status = "ok" THEN Page(m, offset, limit) ELSE <<>>
            count == Len(all_items)
            remain == offset + count < Len(m)
        IN  /\ pc = "page"
            /\ resp.status = "error" => (limit = 1 /\ ~more)
            \* the store's hasMore: true when matches remain; a store that is
            \* not authoritative may also say true on an empty page, here
            \* once in a call
            /\ resp.status = "ok" => (more = remain \/ (more /\ count = 0 /\ honest))
            /\ Log(Exchange("POST", "query", op.coll, offset, CurrentQuery, resp,
                            count, more), code)
            /\ honest' = (honest /\ (resp.status = "ok" => more = remain))
            /\ IF resp.status = "ok"
               THEN /\ offset' = NextOffset(offset, count)
                    /\ has_more' = more
                    /\ items' = Accumulate(items, all_items, count)
                    /\ IF LoopAgain(has_more')
                       THEN UNCHANGED <<pc, outcome>>
                       ELSE Finish(ReturnedItems(items'))
               ELSE /\ Finish(ExtractError(resp, items))
                    /\ UNCHANGED <<offset, has_more, items>>
            /\ UNCHANGED <<exists, docs, collname, op, pre>>

----------------------------------------------------------------------------

\* The caller takes the outcome; the client is idle again.
Return ==
    /\ pc = "done"
    /\ pc' = "idle"
    /\ op' = NoOp
    /\ offset' = 0
    /\ has_more' = TRUE
    /\ items' = <<>>
    /\ reqs' = <<>>
    /\ outcome' = NoOutcome
    /\ pre' = NoStore
    /\ last' = NoAnswer
    /\ honest' = TRUE
    /\ UNCHANGED <<exists, docs, collname>>

HandlerStep ==
    \/ ListResponse
    \/ DeleteResponse
    \/ PutResponse
    \/ InsertResponse
    \/ MetaQueryResponse
    \/ PageResponse

Next ==
    \/ Construct
    \/ CallListCollections
    \/ CallDeleteCollection
    \/ CallAddItem
    \/ CallAddMultipleItems
    \/ CallAddMetadata
    \/ CallExtractMetadata
    \/ CallExtractItems
    \/ CallExtractTileData
    \/ CallExtractRegion
    \/ ListResponse
    \/ DeleteResponse
    \/ PutResponse
    \/ InsertResponse
    \/ MetaQueryResponse
    \/ PageResponse
    \/ Return

Spec == Init /\ [][Next]_vars

\* Every request is answered: a handler that has a step to take takes it.
LiveSpec == Spec /\ WF_vars(HandlerStep)

----------------------------------------------------------------------------
(* Vocabulary of the properties *)

Done == pc = "done"

Ok2xx(code) == 200 <= code /\ code <= 299

AllOk == \A i \in 1..Len(reqs) : reqs[i].status = "ok"

IsQuery(e, coll, q) ==
    e.method = "POST" /\ e.action = "query" /\ e.coll = coll /\ e.q = q

RECURSIVE SumCounts(_, _)
SumCounts(log, n) == IF n = 0 THEN 0 ELSE log[n].count + SumCounts(log, n - 1)

\* The feature documents of s at layer z inside [xlo, xhi] x [ylo, yhi], in
\* the order of s
RECURSIVE DocsInBox(_, _, _, _, _, _)
DocsInBox(s, z, xlo, xhi, ylo, yhi) ==
    IF s = <<>> THEN <<>>
    ELSE LET d == Head(s)
             c == d.coordinates
             in == /\ d.type = "Feature"
                   /\ c[3] = z
                   /\ xlo <= c[1] /\ c[1] <= xhi
                   /\ ylo <= c[2] /\ c[2] <= yhi
         IN  (IF in THEN <<d>> ELSE <<>>) \o DocsInBox(Tail(s), z, xlo, xhi, ylo, yhi)

\* The feature documents of s at layer z, in the order of s
RECURSIVE DocsAtLayer(_, _)
DocsAtLayer(s, z) ==
    IF s = <<>> THEN <<>>
    ELSE (IF Head(s).type = "Feature" /\ Head(s).coordinates[3] = z
          THEN <<Head(s)>> ELSE <<>>) \o DocsAtLayer(Tail(s), z)

MetadataCount(s) == Cardinality({i \in 1..Len(s) : s[i].type = "Metadata"})

----------------------------------------------------------------------------
----------------------------------------------------------------------------
(* C2: the pagination loop of extract_items, extract_tile_data and         *)
(* extract_region ends when hasMore is false: a call is still running only *)
(* while every page so far said hasMore, it returns on the first page that *)
(* says hasMore = false without a further query, and against a store whose *)
(* hasMore is authoritative every call ends, over one page or several.     *)
C2_LoopEndsOnNoMore ==
    op.name \in ExtractOps =>
        /\ \A i \in 1..Len(reqs) - 1 : reqs[i].status = "ok" /\ reqs[i].hasMore
        /\ pc = "page" => \A i \in 1..Len(reqs) : reqs[i].status = "ok" /\ reqs[i].hasMore
        /\ (Done /\ AllOk) =>
              /\ Len(reqs) >= 1
              /\ ~reqs[Len(reqs)].hasMore
              /\ outcome.kind = "return"

\* C2: the loop ends on hasMore = false (always), and a call that is paging
\* ends unless the store has answered it non-authoritatively.
C2_PaginationTerminates ==
    /\ []C2_LoopEndsOnNoMore
    /\ (pc = "page") ~> (Done \/ ~honest)

C2_Witness ==
    /\ Done /\ honest /\ AllOk
    /\ op.name \in ExtractOps
    /\ Len(reqs) >= 2
    /\ outcome.kind = "return"

----------------------------------------------------------------------------
(* C3: in the three extract calls an answer outside 200..299 on any page,  *)
(* the first or a later one, raises DatabaseUnableToExtractData with that  *)
(* answer's status code and reason; the documents collected from earlier   *)
(* pages are not handed to the caller and no further page is requested.    *)
C3_ErrorPageAborts ==
    (op.name \in ExtractOps /\ Len(reqs) >= 1 /\ ~Ok2xx(last.code)) =>
        /\ Done
        /\ outcome.kind = "raise"
        /\ outcome.exc = "DatabaseUnableToExtractData"
        /\ outcome.code = last.code
        /\ outcome.reason = ReasonPhrase(last.code)
        /\ outcome.items = <<>>
        /\ reqs[Len(reqs)].status = "error"
        /\ \A i \in 1..Len(reqs) - 1 : reqs[i].status = "ok"

C3_Witness ==
    /\ Done
    /\ op.name = "extract_tile_data"
    /\ Len(reqs) >= 2
    /\ ~Ok2xx(last.code)
    /\ items # <<>>
    /\ outcome.kind = "raise"

----------------------------------------------------------------------------
(* C4: a collection never holds more than one document of type Metadata,   *)
(* whatever add_metadata calls the client has made with whatever mappings, *)
(* the empty mapping included.                                             *)
C4_AtMostOneMetadata ==
    \A c \in Names : MetadataCount(docs[c]) <= 1

----------------------------------------------------------------------------
(* C5: add_metadata on a collection without a metadata document succeeds,  *)
(* and on a collection that already holds one it raises                    *)
(* DatabaseMetadataAlreadyExists before any insert request is sent,        *)
(* leaving the documents as they were; for every metadata mapping.         *)
C5_SecondAddMetadataFails ==
    (Done /\ op.name = "add_metadata" /\ AllOk /\ Ok2xx(last.code)) =>
        IF MetadataCount(pre.docs[op.coll]) = 0
        THEN /\ outcome = Returned
             /\ docs[op.coll] = pre.docs[op.coll] \o <<MetadataDoc(op.meta)>>
        ELSE /\ outcome = RaisedPlain("DatabaseMetadataAlreadyExists")
             /\ \A i \in 1..Len(reqs) : reqs[i].action = "query"
             /\ docs = pre.docs

----------------------------------------------------------------------------
(* C6: extract_metadata sends the type == Metadata query once and goes by  *)
(* the count of the answer: 0 gives the empty mapping, 1 gives the content *)
(* of that document, more than 1 raises DatabaseTooManyMetadataDocs with   *)
(* the count, a failed query raises DatabaseUnableToExtractData; the store *)
(* is left as it was.  A successful add_metadata(m) on a collection        *)
(* without metadata stores m, so extract_metadata then returns m.          *)
FirstMetadata(s) ==
    s[CHOOSE i \in 1..Len(s) :
        s[i].type = "Metadata" /\ \A j \in 1..(i - 1) : s[j].type # "Metadata"]

C6_ExtractMetadataByCount ==
    /\ (Done /\ op.name = "extract_metadata") =>
          /\ Len(reqs) = 1
          /\ IsQuery(reqs[1], op.coll, [NoQuery EXCEPT !.type = <<"Metadata">>])
          /\ reqs[1].offset = 0
          /\ exists = pre.exists /\ docs = pre.docs
          /\ IF Ok2xx(last.code)
             THEN CASE reqs[1].count = 0 -> outcome = ReturnedMeta({})
                    [] reqs[1].count = 1 ->
                         outcome = ReturnedMeta(FirstMetadata(docs[op.coll]).content)
                    [] OTHER ->
                         outcome = RaisedCount("DatabaseTooManyMetadataDocs",
                                               reqs[1].count)
             ELSE /\ outcome.kind = "raise"
                  /\ outcome.exc = "DatabaseUnableToExtractData"
                  /\ outcome.code = last.code
                  /\ outcome.reason = ReasonPhrase(last.code)
    /\ (Done /\ op.name = "add_metadata" /\ outcome.kind = "return"
           /\ MetadataCount(pre.docs[op.coll]) = 0) =>
          /\ MetadataCount(docs[op.coll]) = 1
          /\ FirstMetadata(docs[op.coll]).content = op.meta

C6_Witness ==
    /\ Done /\ op.name = "extract_metadata"
    /\ Ok2xx(last.code)
    /\ reqs[1].count = 1
    /\ outcome.kind = "return"
    /\ outcome.meta # {}
    /\ Len(docs[op.coll]) >= 2

----------------------------------------------------------------------------
(* C7: JsonDatabase(..., create_coll=True, overwrite=False) for a name the *)
(* listing holds raises DatabaseCollectionExists after the listing alone:  *)
(* no DELETE and no PUT is sent, and the store is as it was.               *)
C7_CreateExistingRefused ==
    (op.name = "init" /\ op.create_coll /\ ~op.overwrite
        /\ op.coll \in pre.exists /\ Len(reqs) >= 1 /\ Ok2xx(last.code)) =>
        /\ Done
        /\ Len(reqs) = 1 /\ reqs[1].method = "GET"
        /\ outcome.kind = "raise"
        /\ outcome.exc = "DatabaseCollectionExists"
        /\ exists = pre.exists /\ docs = pre.docs

C7_Witness ==
    /\ Done /\ op.name = "init" /\ op.create_coll /\ ~op.overwrite
    /\ op.coll \in pre.exists
    /\ docs[op.coll] # <<>>
    /\ outcome.exc = "DatabaseCollectionExists"

----------------------------------------------------------------------------
(* C8: JsonDatabase(..., create_coll=True, overwrite=True) for a           *)
(* collection that exists sends the listing, then the DELETE, then the     *)
(* PUT.  When the three succeed the collection exists, is listed and holds *)
(* none of its earlier documents.  When the DELETE fails no PUT is sent,   *)
(* DatabaseUnableToDelete is raised and the collection is still there.     *)
Methods == [i \in 1..Len(reqs) |-> reqs[i].method]

C8_OverwriteDeletesThenCreates ==
    (op.name = "init" /\ op.create_coll /\ op.overwrite /\ op.coll \in pre.exists
        /\ Len(reqs) >= 1 /\ reqs[1].status = "ok") =>
        /\ Methods = SubSeq(<<"GET", "DELETE", "PUT">>, 1, Len(reqs))
        /\ Done => Len(reqs) >= 2
        /\ (Done /\ Len(reqs) = 3 /\ Ok2xx(last.code)) =>
              /\ reqs[2].status = "ok"
              /\ outcome = Returned
              /\ op.coll \in exists
              /\ docs[op.coll] = <<>>
              /\ collname = op.coll
        /\ (Len(reqs) >= 2 /\ reqs[2].status = "error") =>
              /\ Done /\ Len(reqs) = 2
              /\ outcome.kind = "raise"
              /\ outcome.exc = "DatabaseUnableToDelete"
              /\ outcome.code = last.code
              /\ outcome.reason = ReasonPhrase(last.code)
              /\ op.coll \in exists
              /\ docs = pre.docs

C8_Witness ==
    /\ Done /\ op.name = "init" /\ op.create_coll /\ op.overwrite
    /\ op.coll \in pre.exists
    /\ pre.docs[op.coll] # <<>>
    /\ Len(reqs) = 3 /\ Ok2xx(last.code)
    /\ docs[op.coll] = <<>>

----------------------------------------------------------------------------
(* C9: extract_tile_data(z, x0, y0, tile_size) sends the predicate         *)
(* z == z, x between [x0, x0 + tile_size - 1], y between                   *)
(* [y0, y0 + tile_size - 1], which is the predicate of                     *)
(* extract_region(z, x0, y0, x0 + tile_size - 1, y0 + tile_size - 1); both *)
(* page it from the running offset and return the documents of layer z     *)
(* inside the box, ends included, and no others.                           *)
BoxQuery(z, xlo, xhi, ylo, yhi) ==
    [type |-> <<>>, z |-> <<z>>, x |-> <<xlo, xhi>>, y |-> <<ylo, yhi>>]

BoxCall(z, xlo, xhi, ylo, yhi) ==
    /\ \A i \in 1..Len(reqs) :
          /\ IsQuery(reqs[i], op.coll, BoxQuery(z, xlo, xhi, ylo, yhi))
          /\ reqs[i].offset = SumCounts(reqs, i - 1)
    /\ (Done /\ honest /\ AllOk) =>
          outcome = ReturnedItems(DocsInBox(docs[op.coll], z, xlo, xhi, ylo, yhi))

C9_TileIsInclusiveRegion ==
    /\ op.name = "extract_tile_data" =>
          /\ BoxCall(op.z, op.x0, op.x0 + op.tile_size - 1,
                     op.y0, op.y0 + op.tile_size - 1)
          /\ CurrentQuery = RegionQuery(op.z, op.x0, op.y0, op.x0 + op.tile_size - 1,
                                        op.y0 + op.tile_size - 1)
    /\ op.name = "extract_region" => BoxCall(op.z, op.x0, op.xf, op.y0, op.yf)

C9_Witness ==
    /\ Done /\ honest /\ AllOk
    /\ op.name = "extract_tile_data"
    /\ outcome.items # <<>>
    /\ Len(outcome.items) < Len(DocsAtLayer(docs[op.coll], op.z))

----------------------------------------------------------------------------
(* C10: an answer outside 200..299 to any request surfaces the error kind  *)
(* of that request with the status code and the reason of the answer:      *)
(* PUT -> DatabaseUnableToCreate, listing -> DatabaseUnableToAccess,       *)
(* DELETE -> DatabaseUnableToDelete, insert -> DatabaseUnableToAddItem,    *)
(* query -> DatabaseUnableToExtractData; and an answer within 200..299 is  *)
(* a success for GET, POST and PUT, for DELETE only 200 is.                *)
ErrorKind(e) ==
    CASE e.method = "GET" -> "DatabaseUnableToAccess"
      [] e.method = "DELETE" -> "DatabaseUnableToDelete"
      [] e.method = "PUT" -> "DatabaseUnableToCreate"
      [] e.method = "POST" /\ e.action = "query" -> "DatabaseUnableToExtractData"
      [] OTHER -> "DatabaseUnableToAddItem"

TransportErrors ==
    {"DatabaseUnableToAccess", "DatabaseUnableToDelete", "DatabaseUnableToCreate",
     "DatabaseUnableToExtractData", "DatabaseUnableToAddItem"}

C10_StatusDecidesOutcome ==
    Len(reqs) >= 1 =>
        LET e == reqs[Len(reqs)]
            success == IF e.method = "DELETE" THEN last.code = 200 ELSE Ok2xx(last.code)
        IN  IF success
            THEN ~(Done /\ outcome.exc \in TransportErrors)
            ELSE /\ Done
                 /\ outcome.kind = "raise"
                 /\ outcome.exc = ErrorKind(e)
                 /\ outcome.code = last.code
                 /\ outcome.reason = ReasonPhrase(last.code)

----------------------------------------------------------------------------
(* C11: the pagination loops take a successful page with count 0 as the    *)
(* end of the results: extract_items, extract_tile_data and extract_region *)
(* return after such a page, whatever its hasMore says, and do not request *)
(* the same offset again.                                                  *)
C11_EmptyPageEndsLoop ==
    (op.name \in ExtractOps /\ Len(reqs) >= 1) =>
        /\ (reqs[Len(reqs)].status = "ok" /\ reqs[Len(reqs)].count = 0) =>
              (Done /\ outcome = ReturnedItems(items))
        /\ \A i \in 1..Len(reqs) - 1 : reqs[i].offset # reqs[i + 1].offset

====
